---- MODULE Spec2Model ----
(***************************************************************************)
(* Model of libmultimc's InstanceList (src/libmultimc/src/instancelist.cpp) *)
(* and of the InstanceLoader error codes it classifies                     *)
(* (src/libmultimc/include/instanceloader.h).                              *)
(*                                                                         *)
(* The list is single threaded: a handler runs to completion before the    *)
(* next one starts.  loadList is modelled step by step (one step per       *)
(* directory entry) so that the order of its effects can be stated; while  *)
(* it runs no other handler is enabled.                                    *)
(***************************************************************************)
EXTENDS Integers, Sequences, FiniteSets, TLC

(***************************************************************************)
(* Bounds of the model.                                                    *)
(***************************************************************************)
\* longest directory listing loadList iterates over
MaxDirs == 3
\* longest m_instances that add() is still applied to
MaxLen == 3
\* longest "instances" array of a group in the group file
MaxElems == 2

\* instance identifiers (Instance::id())
Ids == {"a", "b"}
\* group names of the group file, in the key order QJsonObject iterates them
GroupOrder == <<"g1", "g2">>
GroupNames == {GroupOrder[i] : i \in 1..Len(GroupOrder)}

(***************************************************************************)
(* JSON values as the parser inspects them.  A value is a record           *)
(* [type, num, str]: type is the QJsonValue type ("Undefined" is what      *)
(* QJsonObject::value returns for a key that is absent), num is a Double   *)
(* in tenths (12 is 1.2), str is the text of a String.                     *)
(***************************************************************************)
JVal(t, n, s) == [type |-> t, num |-> n, str |-> s]
JUndefined == JVal("Undefined", 0, "")
JNull == JVal("Null", 0, "")
JBool(b) == JVal(IF b THEN "True" ELSE "False", 0, "")
JDouble(tenths) == JVal("Double", tenths, "")
JString(s) == JVal("String", 0, s)
JArray == JVal("Array", 0, "")
JObject == JVal("Object", 0, "")

\* QString::toInt in the cases the model uses: a decimal integer text
\* converts, anything else gives 0.
StrToInt(s) ==
    CASE s = "0" -> 0
      [] s = "1" -> 1
      [] s = "2" -> 2
      [] OTHER -> 0

\* qRound64 of a Double given in tenths: floor(d + 0.5).
qRound(tenths) == (tenths + 5) \div 10

\* QJsonValue::toVariant().toInt(): Bool gives 0/1, Double is rounded, a
\* String is parsed, every other type (Undefined, Null, Array, Object)
\* gives 0.
toInt(v) ==
    CASE v.type = "True" -> 1
      [] v.type = "False" -> 0
      [] v.type = "Double" -> qRound(v.num)
      [] v.type = "String" -> StrToInt(v.str)
      [] OTHER -> 0

\* QJsonValue::toString(): the text of a String, a null QString (which is
\* the key "" of a QMap) for every other type.
toString(v) == IF v.type = "String" THEN v.str ELSE ""

isObject(v) == v.type = "Object"
isArray(v) == v.type = "Array"

GROUP_FILE_FORMAT_VERSION == 1

(***************************************************************************)
(* The group file <m_instDir>/instgroups.json.                             *)
(*   kind          "absent" | "unreadable" | "badjson" | "array" | "object"*)
(*   formatVersion the value of the root's formatVersion                   *)
(*   groupsField   the value of the root's groups                          *)
(*   groups        for an Object groupsField: group name -> group value    *)
(* A group value is [val, instField, elems]: val is the value stored under *)
(* the group name (Undefined: no such key), instField the value of its     *)
(* "instances", elems the elements when instField is an Array.             *)
(***************************************************************************)
Group(v, i, e) == [val |-> v, instField |-> i, elems |-> e]
NoGroup == Group(JUndefined, JUndefined, <<>>)

\* elements an "instances" array may hold
Elems == {JString(i) : i \in Ids} \cup {JDouble(10), JNull}

ElemSeqs == UNION {[1..n -> Elems] : n \in 0..MaxElems}

GroupValues ==
    {NoGroup,
     Group(JString("x"), JUndefined, <<>>),
     Group(JObject, JUndefined, <<>>),
     Group(JObject, JString("a"), <<>>)}
    \cup {Group(JObject, JArray, e) : e \in ElemSeqs}

FormatVersions ==
    {JUndefined, JNull, JBool(TRUE), JBool(FALSE), JString("1"), JString("2"),
     JArray, JDouble(0), JDouble(10), JDouble(12), JDouble(15), JDouble(20)}

File(k, fv, gf, gs) ==
    [kind |-> k, formatVersion |-> fv, groupsField |-> gf, groups |-> gs]

NoGroups == [g \in GroupNames |-> NoGroup]

FailedFiles ==
    {File(k, JUndefined, JUndefined, NoGroups) :
        k \in {"absent", "unreadable", "badjson", "array"}}

ObjectFiles ==
    {File("object", fv, JObject, gs) :
        fv \in FormatVersions, gs \in [GroupNames -> GroupValues]}
    \cup {File("object", fv, gf, NoGroups) :
        fv \in FormatVersions, gf \in {JUndefined, JArray, JString("g1")}}

GroupFiles == FailedFiles \cup ObjectFiles

(***************************************************************************)
(* QMap<QString, QString> groupMap as a function on its keys.              *)
(***************************************************************************)
EmptyMap == [k \in {} |-> ""]

\* groupMap[key] = value
MapSet(m, key, value) ==
    [k \in DOMAIN m \cup {key} |-> IF k = key THEN value ELSE m[k]]

\* the inner loop: every element of instancesArray, in order
RECURSIVE AddInstances(_, _, _, _)
AddInstances(m, elems, i, groupName) ==
    IF i > Len(elems) THEN m
    ELSE AddInstances(MapSet(m, toString(elems[i]), groupName),
                      elems, i + 1, groupName)

\* the body of the outer loop for one key of the groups object
AddGroup(m, groupName, g) ==
    IF ~isObject(g.val) THEN m
    ELSE IF ~isArray(g.instField) THEN m
    ELSE AddInstances(m, g.elems, 1, groupName)

\* IterateGroups giving up at the first group that is not well formed
\* (return where the code has continue)
RECURSIVE IterateGroups_abort(_, _, _)
IterateGroups_abort(m, groups, i) ==
    IF i > Len(GroupOrder) THEN m
    ELSE LET groupName == GroupOrder[i]
             g == groups[groupName]
         IN  IF g.val.type = "Undefined"
             THEN IterateGroups_abort(m, groups, i + 1)
             ELSE IF ~isObject(g.val) \/ ~isArray(g.instField) THEN m
             ELSE IterateGroups_abort(AddGroup(m, groupName, g), groups, i + 1)

\* the outer loop: every key of groupMapping, in key order
RECURSIVE IterateGroups(_, _, _)
IterateGroups(m, groups, i) ==
    IF i > Len(GroupOrder) THEN m
    ELSE LET groupName == GroupOrder[i]
         IN  IterateGroups(
                 IF groups[groupName].val.type = "Undefined" THEN m
                 ELSE AddGroup(m, groupName, groups[groupName]),
                 groups, i + 1)

\* InstanceList::loadGroupList: the map it leaves in groupMap, which the
\* caller passes in empty
loadGroupList(f) ==
    IF f.kind = "absent" THEN EmptyMap
    ELSE IF f.kind = "unreadable" THEN EmptyMap
    ELSE IF f.kind = "badjson" THEN EmptyMap
    ELSE IF f.kind # "object" THEN EmptyMap
    ELSE IF toInt(f.formatVersion) # GROUP_FILE_FORMAT_VERSION THEN EmptyMap
    ELSE IF ~isObject(f.groupsField) THEN EmptyMap
    ELSE IterateGroups(EmptyMap, f.groups, 1)

(***************************************************************************)
(* Instances.  An Instance object is [id, addr]: id is what Instance::id() *)
(* returns, addr tells apart distinct objects that carry the same id.      *)
(***************************************************************************)
Insts == [id : Ids, addr : 1..MaxDirs]
\* the null Instance pointer
NoInst == [id |-> "", addr |-> 0]

\* InstanceLoader::InstLoadError
InstLoadError == {"NoLoadError", "UnknownLoadError", "NotAnInstance"}

\* One entry of the directory listing with the answer the loader gives for
\* it: marker says whether <entry>/instance.cfg exists, error is the code
\* loadInstance returns and instId the id of the instance it stores in
\* instPtr ("" when it leaves instPtr NULL).
DirEntry(mk, err, i) == [marker |-> mk, error |-> err, instId |-> i]
DirEntries ==
    {DirEntry(FALSE, "NoLoadError", "")}
    \cup {DirEntry(TRUE, err, i) : err \in InstLoadError, i \in Ids \cup {""}}

\* the group files the load scenarios draw from
ValidFile(gs) == File("object", JDouble(10), JObject, gs)
MainFiles ==
    FailedFiles
    \cup {File("object", JDouble(10), gf, NoGroups) :
            gf \in {JUndefined, JArray}}
    \cup {File("object", JDouble(20), JObject,
               [NoGroups EXCEPT !["g1"] = Group(JObject, JArray, <<JString("a")>>)])}
    \cup {ValidFile([NoGroups EXCEPT !["g1"] = Group(JObject, JArray, <<JString("a")>>)]),
          ValidFile([NoGroups EXCEPT !["g2"] = Group(JObject, JArray, <<JString("b")>>)]),
          ValidFile([g \in GroupNames |->
                       IF g = "g1" THEN Group(JObject, JArray, <<JString("a")>>)
                       ELSE Group(JObject, JArray, <<JString("a"), JString("b")>>)]),
          ValidFile([g \in GroupNames |->
                       IF g = "g1" THEN Group(JObject, JUndefined, <<>>)
                       ELSE Group(JObject, JArray, <<JString("b")>>)])}

\* signals of InstanceList
Signal(s, i) == [sig |-> s, index |-> i]
invalidated == Signal("invalidated", -1)
instanceAdded(i) == Signal("instanceAdded", i)
instanceChanged(i) == Signal("instanceChanged", i)

\* what a handler returned
Ret(k, n, i) == [kind |-> k, int |-> n, inst |-> i]
NoRet == Ret("none", 0, NoInst)
RetInt(n) == Ret("int", n, NoInst)
RetPtr(i) == Ret("ptr", 0, i)
RetNull == Ret("null", 0, NoInst)
RetGarbage == Ret("garbage", 0, NoInst)
\* the call did not return: the process died in it
Crash == Ret("crash", 0, NoInst)
NoError == Ret("NoError", 0, NoInst)

\* the handler that ran last (or is running) and its argument
Op(o, i, s) == [op |-> o, inst |-> i, id |-> s]

\* root directories a list may be constructed with
Roots == {"instances", "other"}

\* the constructor, lines 34-38: the value it gives m_instDir for the
\* argument instDir
InstanceList(dir) == "instances"

VARIABLES
    m_instances,  \* QList<InstancePtr>: the sequence of held instances
    group,        \* Instance::group() of every instance ("" is ungrouped)
    pc,           \* "idle", "opening" and "scanning" (inside loadList,
                  \* before and in its loop), "crashed"
    groupFile,    \* the group file loadList / loadGroupList was given
    groupMap,     \* loadList's local groupMap
    dirSize,      \* number of entries of the directory loadList walks
    dirEntries,   \* the entries its QDirIterator has returned so far
    loaderCalls,  \* loadInstance calls of this loadList: entry and instPtr
    events,       \* signals emitted by the handler in lastOp, in order
    lastOp,       \* the handler that ran last, with its argument
    ret,          \* what it returned
    m_instDir,    \* the root directory the list scans
    connected,    \* instances whose propertiesChanged signal is connected
                  \* to the list's propertiesChanged slot (line 185)
    groupCalls    \* Instance::setGroup calls of this loadList, in order

vars == <<m_instances, group, pc, groupFile, groupMap, dirSize, dirEntries,
          loaderCalls, events, lastOp, ret, m_instDir, connected, groupCalls>>

\* set by the constructor, never written afterwards
roots == <<m_instDir>>

NoFile == File("absent", JUndefined, JUndefined, NoGroups)
Ungrouped == [i \in Insts |-> ""]

\* groupFile .. loaderCalls are the locals of a loadList call; every other
\* handler leaves them blank
ResetLocals ==
    /\ groupFile' = NoFile
    /\ groupMap' = EmptyMap
    /\ dirSize' = 0
    /\ dirEntries' = <<>>
    /\ loaderCalls' = <<>>
    /\ groupCalls' = <<>>

count == Len(m_instances)

\* line 42: the directory the group file is looked up in
groupFileDir == m_instDir
\* lines 134-135: the directory the QDirIterator walks
scanRoot == m_instDir
Held(list) == {list[i] : i \in 1..Len(list)}

\* the state after the constructor was called with some instDir: an empty
\* list
Init ==
    /\ m_instances = <<>>
    /\ group = Ungrouped
    /\ pc = "idle"
    /\ groupFile = NoFile
    /\ groupMap = EmptyMap
    /\ dirSize = 0
    /\ dirEntries = <<>>
    /\ loaderCalls = <<>>
    /\ events = <<>>
    /\ \E instDir \in Roots :
        /\ lastOp = Op("InstanceList", NoInst, instDir)
        /\ m_instDir = InstanceList(instDir)
    /\ ret = NoRet
    /\ connected = {}
    /\ groupCalls = <<>>

(***************************************************************************)
(* The loop of the propertiesChanged slot, lines 225-232.                  *)
(***************************************************************************)
\* propertiesChanged comparing identifiers instead of object identity
RECURSIVE propertiesChanged_byId(_, _, _)
propertiesChanged_byId(list, inst, i) ==
    IF ~(i < Len(list)) THEN <<>>
    ELSE IF inst.id = list[i + 1].id THEN <<instanceChanged(i)>>
    ELSE propertiesChanged_byId(list, inst, i + 1)

\* propertiesChanged reporting the position counted from 1
RECURSIVE propertiesChanged_oneBased(_, _, _)
propertiesChanged_oneBased(list, inst, i) ==
    IF ~(i < Len(list)) THEN <<>>
    ELSE IF inst = list[i + 1] THEN <<instanceChanged(i + 1)>>
    ELSE propertiesChanged_oneBased(list, inst, i + 1)

\* the loop: the signals it emits when started at index i (0-based)
RECURSIVE propertiesChanged(_, _, _)
propertiesChanged(list, inst, i) ==
    IF ~(i < Len(list)) THEN <<>>
    ELSE IF inst = list[i + 1] THEN <<instanceChanged(i)>>
    ELSE propertiesChanged(list, inst, i + 1)

(***************************************************************************)
(* loadList, lines 127-190.                                                *)
(***************************************************************************)
\* LoadListBegin without line 133: the list is not cleared
LoadListBegin_noClear ==
    /\ pc = "idle"
    /\ \E f \in MainFiles :
        /\ groupFile' = f
        /\ groupMap' = loadGroupList(f)
    /\ dirSize' = 0
    /\ dirEntries' = <<>>
    /\ loaderCalls' = <<>>
    /\ events' = <<>>
    /\ lastOp' = Op("loadList", NoInst, "")
    /\ ret' = NoRet
    /\ pc' = "opening"
    /\ groupCalls' = <<>>
    /\ UNCHANGED <<m_instances, group, connected, roots>>

\* LoadListBegin treating a group file that cannot be used as an error of
\* the load: it returns before the scan
LoadListBegin_groupError ==
    /\ pc = "idle"
    /\ \E f \in MainFiles :
        /\ groupFile' = f
        /\ groupMap' = loadGroupList(f)
        /\ IF f.kind # "object" \/ ~isObject(f.groupsField)
           THEN pc' = "idle" /\ ret' = Ret("GroupFileError", 0, NoInst)
           ELSE pc' = "opening" /\ ret' = NoRet
    /\ dirSize' = 0
    /\ dirEntries' = <<>>
    /\ m_instances' = <<>>
    /\ group' = Ungrouped
    /\ loaderCalls' = <<>>
    /\ events' = <<>>
    /\ lastOp' = Op("loadList", NoInst, "")
    /\ connected' = {}
    /\ groupCalls' = <<>>
    /\ UNCHANGED roots

\* lines 129-133: build the group map, clear the list
LoadListBegin ==
    /\ pc = "idle"
    /\ \E f \in MainFiles :
        /\ groupFile' = f
        /\ groupMap' = loadGroupList(f)
    /\ dirSize' = 0
    /\ dirEntries' = <<>>
    /\ m_instances' = <<>>
    /\ group' = Ungrouped
    /\ loaderCalls' = <<>>
    /\ events' = <<>>
    /\ lastOp' = Op("loadList", NoInst, "")
    /\ ret' = NoRet
    /\ pc' = "opening"
    /\ connected' = {}
    /\ groupCalls' = <<>>
    /\ UNCHANGED roots

\* lines 134-135: the iterator is opened on the directory, which has some
\* number of entries
LoadListOpen ==
    /\ pc = "opening"
    /\ \E n \in 0..MaxDirs : dirSize' = n
    /\ pc' = "scanning"
    /\ UNCHANGED <<m_instances, group, groupFile, groupMap, dirEntries,
                   loaderCalls, events, lastOp, ret, roots, connected,
                   groupCalls>>

\* the object loadInstance creates for an entry: a new Instance, distinct
\* from every instance the list holds, or NULL
NewInst(list, id) ==
    [id |-> id,
     addr |-> CHOOSE a \in 1..MaxDirs :
                /\ [id |-> id, addr |-> a] \notin Held(list)
                /\ \A b \in 1..(a - 1) : [id |-> id, addr |-> b] \in Held(list)]

loadInstance(list, e) ==
    IF e.instId = "" THEN NoInst ELSE NewInst(list, e.instId)

\* lines 154-174: the branch that appends
Accepted(error, instPtr) ==
    /\ ~(error # "NoLoadError" /\ error # "NotAnInstance")
    /\ instPtr # NoInst

\* setGroupCalls calling setGroup for every instance, with the value
\* groupMap.value(id) gives: the empty name for an id that is not a key
setGroupCalls_always(map, inst) ==
    <<[inst |-> inst,
       group |-> IF inst.id \in DOMAIN map THEN map[inst.id] ELSE ""]>>

\* lines 177-181: the setGroup calls made for the instance
setGroupCalls(map, inst) ==
    IF inst.id \in DOMAIN map
    THEN <<[inst |-> inst, group |-> map[inst.id]]>>
    ELSE <<>>

\* lines 177-181: the group mapping applied to the instance
SetGroup(g, map, inst) ==
    LET calls == setGroupCalls(map, inst)
    IN  IF calls = <<>> THEN g ELSE [g EXCEPT ![inst] = calls[1].group]

\* Instance::setGroup emits propertiesChanged(this): the instance the
\* signal of a setGroup call carries
setGroupSignal(call) == call.inst

\* a propertiesChanged(inst) signal reaches the slot of lines 223-233 if
\* inst was connected (line 185); the slot runs inside the emit
Deliver(conn, list, inst) ==
    IF inst \in conn THEN propertiesChanged(list, inst, 0) ELSE <<>>

\* the signals the slot emits for the setGroup calls
SlotSignals(conn, list, calls) ==
    IF calls = <<>> THEN <<>>
    ELSE Deliver(conn, list, setGroupSignal(calls[1]))

\* Adopt with the instance appended and connected before its group is set
Adopt_connectFirst(list, g, conn, ev, calls, map, inst) ==
    LET c == setGroupCalls(map, inst)
        list1 == Append(list, inst)
        conn1 == conn \cup {inst}
    IN  [list |-> list1,
         group |-> SetGroup(g, map, inst),
         connected |-> conn1,
         events |-> ev \o SlotSignals(conn1, list1, c),
         calls |-> calls \o c]

\* lines 176-185: setGroup, then append, then connect; the new values of
\* m_instances, group, connected, events and groupCalls
Adopt(list, g, conn, ev, calls, map, inst) ==
    LET c == setGroupCalls(map, inst)
    IN  [list |-> Append(list, inst),
         group |-> SetGroup(g, map, inst),
         connected |-> conn \cup {inst},
         events |-> ev \o SlotSignals(conn, list, c),
         calls |-> calls \o c]

\* hasMarker that takes every entry for an instance directory
hasMarker_always(e) == TRUE

\* line 139: <entry>/instance.cfg exists
hasMarker(e) == e.marker

\* iter.hasNext()
hasNext == Len(dirEntries) < dirSize

\* LoadListEntry leaving the loop at an entry that fails to load (break
\* after the error is logged): lines 188-189 follow at once
LoadListEntry_break ==
    /\ pc = "scanning"
    /\ hasNext
    /\ \E e \in DirEntries :
        LET instPtr == loadInstance(m_instances, e)
            a == Adopt(m_instances, group, connected, events, groupCalls,
                       groupMap, instPtr)
        IN  /\ dirEntries' = Append(dirEntries, e)
            /\ IF ~hasMarker(e)
               THEN UNCHANGED <<m_instances, group, loaderCalls, connected,
                                events, groupCalls, pc, ret>>
               ELSE /\ loaderCalls' =
                         Append(loaderCalls,
                                [entry |-> Len(dirEntries'), inst |-> instPtr])
                    /\ IF Accepted(e.error, instPtr)
                       THEN /\ m_instances' = a.list
                            /\ group' = a.group
                            /\ connected' = a.connected
                            /\ events' = a.events
                            /\ groupCalls' = a.calls
                            /\ UNCHANGED <<pc, ret>>
                       ELSE /\ events' = Append(events, invalidated)
                            /\ ret' = NoError
                            /\ pc' = "idle"
                            /\ UNCHANGED <<m_instances, group, connected,
                                           groupCalls>>
    /\ UNCHANGED <<groupFile, groupMap, dirSize, lastOp, roots>>

\* lines 136-187: one turn of the loop; iter.next() returns the entry e,
\* which is read from the directory at this moment
LoadListEntry ==
    /\ pc = "scanning"
    /\ hasNext
    /\ \E e \in DirEntries :
        LET instPtr == loadInstance(m_instances, e)
            a == Adopt(m_instances, group, connected, events, groupCalls,
                       groupMap, instPtr)
        IN  /\ dirEntries' = Append(dirEntries, e)
            /\ IF ~hasMarker(e)
               THEN UNCHANGED <<m_instances, group, loaderCalls, connected,
                                events, groupCalls>>
               ELSE /\ loaderCalls' =
                         Append(loaderCalls,
                                [entry |-> Len(dirEntries'), inst |-> instPtr])
                    /\ IF Accepted(e.error, instPtr)
                       THEN /\ m_instances' = a.list
                            /\ group' = a.group
                            /\ connected' = a.connected
                            /\ events' = a.events
                            /\ groupCalls' = a.calls
                       ELSE UNCHANGED <<m_instances, group, connected,
                                        events, groupCalls>>
    /\ UNCHANGED <<pc, groupFile, groupMap, dirSize, lastOp, ret, roots>>

\* LoadListEnd returning without the emit of line 188
LoadListEnd_noEmit ==
    /\ pc = "scanning"
    /\ ~hasNext
    /\ ret' = NoError
    /\ pc' = "idle"
    /\ UNCHANGED <<m_instances, group, groupFile, groupMap, dirSize,
                   dirEntries, loaderCalls, lastOp, events, roots, connected,
                   groupCalls>>

\* lines 188-189: the iterator is exhausted
LoadListEnd ==
    /\ pc = "scanning"
    /\ ~hasNext
    /\ events' = Append(events, invalidated)
    /\ ret' = NoError
    /\ pc' = "idle"
    /\ UNCHANGED <<m_instances, group, groupFile, groupMap, dirSize,
                   dirEntries, loaderCalls, lastOp, roots, connected,
                   groupCalls>>

(***************************************************************************)
(* clear, lines 193-197.                                                   *)
(***************************************************************************)
Clear ==
    /\ pc = "idle"
    /\ m_instances' = <<>>
    /\ group' = Ungrouped
    /\ events' = <<invalidated>>
    /\ lastOp' = Op("clear", NoInst, "")
    /\ ret' = NoRet
    /\ connected' = {}
    /\ ResetLocals
    /\ UNCHANGED <<pc, roots>>

(***************************************************************************)
(* add, lines 200-205.                                                     *)
(***************************************************************************)
\* add emitting the index before it appends: count() - 1 of the old list
Add_emitFirst(t) ==
    /\ pc = "idle"
    /\ count < MaxLen
    /\ m_instances' = Append(m_instances, t)
    /\ events' = <<instanceAdded(Len(m_instances) - 1)>>
    /\ ret' = RetInt(Len(m_instances') - 1)
    /\ lastOp' = Op("add", t, "")
    /\ ResetLocals
    /\ UNCHANGED <<group, pc, roots, connected>>

Add(t) ==
    /\ pc = "idle"
    /\ count < MaxLen
    /\ m_instances' = Append(m_instances, t)
    /\ events' = <<instanceAdded(Len(m_instances') - 1)>>
    /\ ret' = RetInt(Len(m_instances') - 1)
    /\ lastOp' = Op("add", t, "")
    /\ ResetLocals
    /\ UNCHANGED <<group, pc, roots, connected>>

(***************************************************************************)
(* getInstanceById, lines 207-221.                                         *)
(***************************************************************************)
\* ScanFor that keeps going after a match: the last instance carrying
\* instId, else the last instance
ScanFor_last(list, instId, i) ==
    LET hits == {k \in i..Len(list) : list[k].id = instId}
    IN  IF hits = {} THEN Len(list)
        ELSE CHOOSE k \in hits : \A h \in hits : h <= k

\* lines 209-216: inst after the loop, for a list that is not empty: the
\* first instance carrying instId, else the last instance
RECURSIVE ScanFor(_, _, _)
ScanFor(list, instId, i) ==
    IF list[i].id = instId \/ i = Len(list) THEN i
    ELSE ScanFor(list, instId, i + 1)

\* The outcomes of a call.  On an empty list the loop never assigns inst,
\* and line 217 calls id() through a null pointer: undefined behaviour,
\* whose outcomes are a crash, the null result, or whatever peekPrevious()
\* reads in front of the list.
getInstanceById(list, instId) ==
    IF list = <<>> THEN {Crash, RetNull, RetGarbage}
    ELSE LET i == ScanFor(list, instId, 1)
         IN  IF list[i].id # instId THEN {RetNull} ELSE {RetPtr(list[i])}

GetInstanceById(instId) ==
    /\ pc = "idle"
    /\ \E r \in getInstanceById(m_instances, instId) :
        /\ ret' = r
        /\ pc' = IF r = Crash THEN "crashed" ELSE pc
    /\ events' = <<>>
    /\ lastOp' = Op("getInstanceById", NoInst, instId)
    /\ ResetLocals
    /\ UNCHANGED <<m_instances, group, roots, connected>>

(***************************************************************************)
(* propertiesChanged, lines 223-233.                                       *)
(***************************************************************************)
PropertiesChanged(inst) ==
    /\ pc = "idle"
    /\ events' = propertiesChanged(m_instances, inst, 0)
    /\ lastOp' = Op("propertiesChanged", inst, "")
    /\ ret' = NoRet
    /\ ResetLocals
    /\ UNCHANGED <<m_instances, group, pc, roots, connected>>

Next ==
    \/ LoadListBegin
    \/ LoadListOpen
    \/ LoadListEntry
    \/ LoadListEnd
    \/ Clear
    \/ \E t \in Insts : Add(t)
    \/ \E instId \in Ids : GetInstanceById(instId)
    \/ \E inst \in Insts : PropertiesChanged(inst)

Spec == Init /\ [][Next]_vars

\* loadList runs to completion: its loop and its return are not preempted
FairSpec ==
    Spec /\ WF_vars(LoadListOpen) /\ WF_vars(LoadListEntry)
         /\ WF_vars(LoadListEnd)

(***************************************************************************)
(* The group file parser on its own: every group file, parsed once.        *)
(***************************************************************************)
InitGroups ==
    /\ m_instances = <<>>
    /\ group = Ungrouped
    /\ pc = "idle"
    /\ groupFile \in GroupFiles
    /\ groupMap = EmptyMap
    /\ dirSize = 0
    /\ dirEntries = <<>>
    /\ loaderCalls = <<>>
    /\ events = <<>>
    /\ \E instDir \in Roots :
        /\ lastOp = Op("InstanceList", NoInst, instDir)
        /\ m_instDir = InstanceList(instDir)
    /\ ret = NoRet
    /\ connected = {}
    /\ groupCalls = <<>>

\* lines 40-125 applied to the file
LoadGroupList ==
    /\ pc = "idle"
    /\ lastOp.op = "InstanceList"
    /\ groupMap' = loadGroupList(groupFile)
    /\ lastOp' = Op("loadGroupList", NoInst, "")
    /\ UNCHANGED <<m_instances, group, pc, groupFile, dirSize, dirEntries,
                   loaderCalls, events, ret, roots, connected, groupCalls>>

NextGroups == LoadGroupList

SpecGroups == InitGroups /\ [][NextGroups]_vars

(***************************************************************************)
(* Properties.                                                             *)
(***************************************************************************)
\* the handler in lastOp has returned
Returned(op) == lastOp.op = op /\ pc = "idle"

\* loadList has been entered and has not returned
InLoadList == pc \in {"opening", "scanning"}

\* C1: getInstanceById called with an identifier that no held instance
\* carries returns the null result, also on the empty list.
C1_NotFoundReturnsNull ==
    (lastOp.op = "getInstanceById"
        /\ \A i \in Held(m_instances) : i.id # lastOp.id)
    => ret = RetNull

\* the instances the loader returned for the entries it classified
\* NoLoadError, in the order of its calls
RECURSIVE OkInstances(_, _)
OkInstances(calls, entries) ==
    IF calls = <<>> THEN <<>>
    ELSE LET c == Head(calls)
         IN  (IF entries[c.entry].error = "NoLoadError" /\ c.inst # NoInst
              THEN <<c.inst>> ELSE <<>>)
             \o OkInstances(Tail(calls), entries)

\* C2: after loadList the list holds exactly the instances of the entries
\* that have the marker and that the loader classified NoLoadError, in the
\* order of the loader's calls; NotAnInstance and UnknownLoadError entries
\* contribute nothing, whatever instance came with them.
C2_HoldsExactlyOkInstances ==
    Returned("loadList") => m_instances = OkInstances(loaderCalls, dirEntries)

ResetCount == Cardinality({i \in 1..Len(events) : events[i] = invalidated})

\* C3: every loadList call returns after one pass over the directory
\* (each turn of the loop takes the next entry, none twice), and emits
\* exactly one invalidated, after the last entry was processed, however
\* many instances it loaded and whatever the group file was.
C3_OneResetAfterSinglePass ==
    /\ [](lastOp.op = "loadList" /\ InLoadList => ResetCount = 0)
    /\ [](Returned("loadList") =>
            /\ ResetCount = 1
            /\ events[Len(events)] = invalidated
            /\ Len(dirEntries) = dirSize)
    /\ [][pc = "scanning" =>
            \/ pc' = "scanning" /\ Len(dirEntries') = Len(dirEntries) + 1
                 /\ SubSeq(dirEntries', 1, Len(dirEntries)) = dirEntries
            \/ pc' = "idle" /\ dirEntries' = dirEntries]_vars
    /\ (InLoadList ~> Returned("loadList"))

C3_Witness ==
    /\ Returned("loadList")
    /\ groupFile.kind = "badjson"
    /\ dirSize >= 2
    /\ m_instances = <<>>
    /\ events = <<invalidated>>

\* C4: during and after a loadList the list holds only instances that this
\* call's scan produced: nothing held before the call remains.
C4_ReloadReplaces ==
    lastOp.op = "loadList" =>
        /\ Len(m_instances) <= Len(loaderCalls)
        /\ \A i \in 1..Len(m_instances) :
              \E c \in 1..Len(loaderCalls) :
                 loaderCalls[c].inst = m_instances[i]

C4_Witness ==
    /\ Returned("loadList")
    /\ Len(m_instances) = 2
    /\ Len(loaderCalls) = 2

\* C5: add appends the instance at the end, leaves the instances held
\* before where they were, emits exactly one instanceAdded and nothing
\* else, and the signal's index and the returned value are count() - 1 of
\* the list after the append, where the new instance sits.
C5_AddAppendsAndReports ==
    [][lastOp'.op = "add" =>
        /\ Len(m_instances') = Len(m_instances) + 1
        /\ SubSeq(m_instances', 1, Len(m_instances)) = m_instances
        /\ Len(events') = 1
        /\ events'[1].sig = "instanceAdded"
        /\ events'[1].index = Len(m_instances') - 1
        /\ ret' = RetInt(Len(m_instances') - 1)
        /\ m_instances'[events'[1].index + 1] = lastOp'.inst]_vars

C5_Witness ==
    /\ lastOp.op = "add"
    /\ Len(m_instances) = 2
    /\ events = <<instanceAdded(1)>>
    /\ ret = RetInt(1)
    /\ m_instances[2] = lastOp.inst

\* C6: propertiesChanged finds the instance by object identity: for a held
\* instance it emits exactly one instanceChanged whose index is a position
\* of that very object (also when an instance with the same id sits
\* before it), for an instance that is not held it emits nothing, and it
\* never changes the list.
C6_ChangedByIdentity ==
    [][lastOp'.op = "propertiesChanged" =>
        /\ m_instances' = m_instances
        /\ group' = group
        /\ IF lastOp'.inst \in Held(m_instances)
           THEN /\ Len(events') = 1
                /\ events'[1].sig = "instanceChanged"
                /\ events'[1].index \in 0..(Len(m_instances) - 1)
                /\ m_instances[events'[1].index + 1] = lastOp'.inst
           ELSE events' = <<>>]_vars

C6_Witness ==
    /\ lastOp.op = "propertiesChanged"
    /\ Len(m_instances) >= 2
    /\ m_instances[2] = lastOp.inst
    /\ m_instances[1] # lastOp.inst
    /\ m_instances[1].id = lastOp.inst.id
    /\ events = <<instanceChanged(1)>>

\* a group of the file that is an object with an instances array
WellFormed(g) == g.val.type = "Object" /\ g.instField.type = "Array"

\* the identifiers a group declares: the string elements of its array
DeclaredIn(f, n) ==
    {f.groups[n].elems[j].str :
        j \in {k \in 1..Len(f.groups[n].elems) :
                  f.groups[n].elems[k].type = "String"}}

\* the (instanceId, groupName) pairs the well-formed groups declare
DeclaredPairs(f) ==
    UNION {{<<id, n>> : id \in DeclaredIn(f, n)} :
              n \in {m \in GroupNames : WellFormed(f.groups[m])}}

MapPairs(m) == {<<k, m[k]>> : k \in DOMAIN m}

\* loadGroupList has parsed the file in groupFile into groupMap
Parsed == lastOp.op = "loadGroupList"

\* an object root with formatVersion 1 and an object-valued groups field
VersionOne(f) ==
    /\ f.kind = "object"
    /\ f.formatVersion = JDouble(10)
    /\ f.groupsField.type = "Object"

\* the arrays of the well-formed groups hold only strings
OnlyStrings(f) ==
    \A n \in GroupNames :
        WellFormed(f.groups[n]) =>
            \A j \in 1..Len(f.groups[n].elems) :
                f.groups[n].elems[j].type = "String"

\* position of a group name in the iteration order
OrderOf(n) == CHOOSE i \in 1..Len(GroupOrder) : GroupOrder[i] = n

\* C7 as stated: for a version 1 file whose arrays hold only strings, the
\* map is exactly the set of (instanceId, groupName) pairs the well-formed
\* groups declare.
C7_ExactlyDeclaredPairs ==
    (Parsed /\ VersionOne(groupFile) /\ OnlyStrings(groupFile))
    => MapPairs(groupMap) = DeclaredPairs(groupFile)

\* C7 amended: for a version 1 file whose arrays hold only strings, the
\* keys of the map are exactly the identifiers the well-formed groups
\* declare, and each key is mapped to the last group, in the key order the
\* groups are iterated in, that declares it; groups that are not well
\* formed contribute nothing and hide nothing.
C7_DeclaredPairsLastWins ==
    (Parsed /\ VersionOne(groupFile) /\ OnlyStrings(groupFile))
    => MapPairs(groupMap) =
          {p \in DeclaredPairs(groupFile) :
              \A q \in DeclaredPairs(groupFile) :
                  q[1] = p[1] => OrderOf(q[2]) <= OrderOf(p[2])}

C7_Witness ==
    /\ Parsed /\ VersionOne(groupFile) /\ OnlyStrings(groupFile)
    /\ groupFile.groups["g1"].val.type = "Object"
    /\ ~WellFormed(groupFile.groups["g1"])
    /\ WellFormed(groupFile.groups["g2"])
    /\ MapPairs(groupMap) = {<<"a", "g2">>, <<"b", "g2">>}

\* C8: for a version 1 file, the keys of the map are exactly the string
\* elements of the arrays of the well-formed groups: an element that is
\* not a string adds no key.
C8_NonStringsIgnored ==
    (Parsed /\ VersionOne(groupFile))
    => DOMAIN groupMap = {p[1] : p \in DeclaredPairs(groupFile)}

\* C9: the map is not empty only if formatVersion is the number 1.
C9_OnlyVersionOne ==
    (Parsed /\ groupMap # EmptyMap) => groupFile.formatVersion = JDouble(10)

\* the group file is absent, unreadable, not JSON, has a root that is not
\* an object, or has no object-valued groups field
GroupFileFailure(f) ==
    \/ f.kind \in {"absent", "unreadable", "badjson", "array"}
    \/ f.kind = "object" /\ f.groupsField.type # "Object"

\* what the scan appends, from the loader's answers alone
RECURSIVE ScanResult(_, _)
ScanResult(calls, entries) ==
    IF calls = <<>> THEN <<>>
    ELSE LET c == Head(calls)
         IN  (IF entries[c.entry].error \in {"NoLoadError", "NotAnInstance"}
                 /\ c.inst # NoInst
              THEN <<c.inst>> ELSE <<>>)
             \o ScanResult(Tail(calls), entries)

\* C10: with a group file that fails, the map is empty and loadList still
\* scans the whole directory, returns NoError and holds the instances the
\* scan gives whatever the group file is, in scan order, all ungrouped.
C10_GroupFailureStillLoads ==
    (lastOp.op = "loadList" /\ GroupFileFailure(groupFile)) =>
        /\ groupMap = EmptyMap
        /\ \A i \in Held(m_instances) : group[i] = ""
        /\ pc = "idle" =>
              /\ ret = NoError
              /\ Len(dirEntries) = dirSize
              /\ m_instances = ScanResult(loaderCalls, dirEntries)

C10_Witness ==
    /\ Returned("loadList")
    /\ groupFile.kind = "object"
    /\ groupFile.groupsField.type = "Undefined"
    /\ Len(m_instances) >= 2
    /\ ret = NoError

\* C11: every instance loadList appended whose id is a key of the group
\* map built from this call's group file has the mapped group, set by one
\* setGroup call; for an instance whose id is not a key loadList made no
\* setGroup call, and it still has the loader's default group.
C11_GroupApplied ==
    lastOp.op = "loadList" =>
        LET map == loadGroupList(groupFile)
        IN  /\ \A k \in 1..Len(m_instances) :
                 LET i == m_instances[k]
                 IN  IF i.id \in DOMAIN map
                     THEN /\ group[i] = map[i.id]
                          /\ \E c \in 1..Len(groupCalls) :
                                groupCalls[c] = [inst |-> i, group |-> map[i.id]]
                     ELSE /\ group[i] = ""
                          /\ \A c \in 1..Len(groupCalls) :
                                groupCalls[c].inst # i
            /\ \A c \in 1..Len(groupCalls) :
                 groupCalls[c].inst \in Held(m_instances)

C11_Witness ==
    /\ Returned("loadList")
    /\ DOMAIN groupMap = {"a"}
    /\ Len(m_instances) = 2
    /\ m_instances[1].id = "b"
    /\ m_instances[2].id = "a"
    /\ group[m_instances[1]] = ""
    /\ group[m_instances[2]] = "g1"
    /\ Len(groupCalls) = 1

\* the entry the iterator returned last
LastEntry(entries) == entries[Len(entries)]

\* the loader answered UnknownLoadError, or NoLoadError with a null instance
FailedToLoad(e) ==
    /\ e.marker
    /\ \/ e.error = "UnknownLoadError"
       \/ e.error = "NoLoadError" /\ e.instId = ""

\* C12: an entry that fails to load appends nothing, leaves the instances
\* appended before it in place and does not end the scan: loadList returns
\* only when every entry of the directory was taken, and every entry the
\* loader answered NoLoadError with an instance for is then in the list.
C12_FailureDoesNotAbort ==
    /\ [][(pc = "scanning" /\ Len(dirEntries') = Len(dirEntries) + 1) =>
            /\ SubSeq(m_instances', 1, Len(m_instances)) = m_instances
            /\ FailedToLoad(LastEntry(dirEntries')) =>
                  m_instances' = m_instances /\ pc' = "scanning"]_vars
    /\ [][(pc = "scanning" /\ pc' = "idle") =>
            Len(dirEntries') = dirSize']_vars
    /\ [](Returned("loadList") =>
            /\ Len(dirEntries) = dirSize
            /\ \A c \in 1..Len(loaderCalls) :
                  (dirEntries[loaderCalls[c].entry].error = "NoLoadError"
                      /\ loaderCalls[c].inst # NoInst)
                  => loaderCalls[c].inst \in Held(m_instances))

C12_Witness ==
    /\ Returned("loadList")
    /\ Len(dirEntries) = 3
    /\ dirEntries[1] = DirEntry(TRUE, "NoLoadError", "a")
    /\ dirEntries[2] = DirEntry(TRUE, "UnknownLoadError", "")
    /\ dirEntries[3] = DirEntry(TRUE, "NoLoadError", "b")
    /\ Len(m_instances) = 2
    /\ m_instances[2].id = "b"

\* C13: during loadList loadInstance is called exactly once for every
\* entry that has the marker file, in the order of the listing, and never
\* for an entry without it; an entry without the marker changes nothing
\* but the iterator.
C13_MarkerGatesLoader ==
    /\ [](lastOp.op = "loadList" =>
            /\ Len(loaderCalls) =
                  Cardinality({k \in 1..Len(dirEntries) : dirEntries[k].marker})
            /\ \A c \in 1..Len(loaderCalls) :
                  /\ loaderCalls[c].entry \in 1..Len(dirEntries)
                  /\ dirEntries[loaderCalls[c].entry].marker
                  /\ \A d \in 1..(c - 1) :
                        loaderCalls[d].entry < loaderCalls[c].entry)
    /\ [][(pc = "scanning" /\ Len(dirEntries') = Len(dirEntries) + 1
             /\ ~LastEntry(dirEntries').marker) =>
            UNCHANGED <<m_instances, group, loaderCalls, events, connected,
                        groupCalls, pc, ret>>]_vars

C13_Witness ==
    /\ Returned("loadList")
    /\ Len(dirEntries) = 3
    /\ ~dirEntries[1].marker
    /\ dirEntries[2].marker
    /\ ~dirEntries[3].marker
    /\ Len(loaderCalls) = 1
    /\ loaderCalls[1].entry = 2
    /\ Len(m_instances) = 1

\* C14: clear leaves the list empty and emits exactly one invalidated and
\* nothing else, also on an empty list; a getInstanceById that follows
\* finds nothing, whatever the identifier.
C14_ClearEmptiesAndResets ==
    [][/\ lastOp'.op = "clear" =>
             m_instances' = <<>> /\ events' = <<invalidated>>
       /\ (lastOp.op = "clear" /\ lastOp'.op = "getInstanceById") =>
             ret' = RetNull /\ pc' = "idle"]_vars

\* positions of the instances carrying an identifier
Carrying(list, id) == {k \in 1..Len(list) : list[k].id = id}

\* C15: instances with an identifier the list already holds are appended
\* like any other, by add and by loadList, and getInstanceById returns the
\* instance at the lowest position among those carrying the identifier;
\* it changes neither the list nor an instance and emits nothing.
C15_DuplicatesKeptFirstReturned ==
    /\ [][(lastOp'.op = "getInstanceById"
             /\ Carrying(m_instances, lastOp'.id) # {}) =>
            /\ \E k \in Carrying(m_instances, lastOp'.id) :
                  /\ \A h \in Carrying(m_instances, lastOp'.id) : k <= h
                  /\ ret' = RetPtr(m_instances[k])
            /\ events' = <<>>
            /\ UNCHANGED <<m_instances, group, connected>>]_vars
    /\ [][lastOp'.op = "add" =>
            m_instances' = Append(m_instances, lastOp'.inst)]_vars
    /\ [][(pc = "scanning" /\ Len(dirEntries') = Len(dirEntries) + 1
             /\ LastEntry(dirEntries').marker
             /\ LastEntry(dirEntries').error = "NoLoadError"
             /\ LastEntry(dirEntries').instId # "") =>
            /\ Len(m_instances') = Len(m_instances) + 1
            /\ m_instances'[Len(m_instances')].id
                  = LastEntry(dirEntries').instId]_vars

C15_Witness ==
    /\ lastOp.op = "getInstanceById"
    /\ Len(m_instances) = 3
    /\ m_instances[1].id # lastOp.id
    /\ m_instances[2].id = lastOp.id
    /\ m_instances[3].id = lastOp.id
    /\ m_instances[2] # m_instances[3]
    /\ ret = RetPtr(m_instances[2])

\* C16: the directory loadList scans, and the directory it looks the group
\* file up in, is the instDir the list was constructed with.
C16_ScansGivenRoot ==
    lastOp.op = "InstanceList" =>
        scanRoot = lastOp.id /\ groupFileDir = lastOp.id

\* C17: from the start of a loadList to its return the only signal emitted
\* is the final invalidated: no instanceAdded and no instanceChanged, also
\* for the instances whose group loadList set, which are connected only
\* after that.
C17_NoItemSignalsDuringLoad ==
    lastOp.op = "loadList" =>
        /\ \A k \in 1..Len(events) :
              events[k].sig \notin {"instanceAdded", "instanceChanged"}
        /\ InLoadList => events = <<>>
        /\ \A c \in 1..Len(groupCalls) : groupCalls[c].inst \in connected

C17_Witness ==
    /\ Returned("loadList")
    /\ Len(groupCalls) = 2
    /\ Len(m_instances) = 2
    /\ connected = Held(m_instances)
    /\ events = <<invalidated>>

\* C18: every instanceAdded and instanceChanged that was emitted carries an
\* index within the list, and the instance at that index is the one that
\* was added, or the one whose properties changed.
C18_IndexNamesTheInstance ==
    \A k \in 1..Len(events) :
        events[k].sig \in {"instanceAdded", "instanceChanged"} =>
            /\ lastOp.op = (IF events[k].sig = "instanceAdded"
                            THEN "add" ELSE "propertiesChanged")
            /\ 0 <= events[k].index
            /\ events[k].index < count
            /\ m_instances[events[k].index + 1] = lastOp.inst

C18_Witness ==
    /\ lastOp.op = "propertiesChanged"
    /\ Len(m_instances) = 3
    /\ events = <<instanceChanged(2)>>
    /\ m_instances[3] = lastOp.inst

====
